---- MODULE Spec2Model ----
(***************************************************************************)
(* mask-my-name: locate a target string in an image by OCR and overwrite   *)
(* every region where it is recognised (src/src/main.rs).                  *)
(*                                                                         *)
(* Three specifications over one set of variables:                         *)
(*   Spec         one run of main(): argument handling, mask_my_name and   *)
(*                the write-out of the result;                             *)
(*   SpecMatch    the match evaluation of mask_my_name (target             *)
(*                supplementation, text normalisation, substring test)     *)
(*                over bounded strings;                                    *)
(*   SpecExtract  the rectangle filter of find_textarea_from_mask over     *)
(*                bounded rectangles and image sizes.                      *)
(* A string is a sequence of one-character strings. OpenCV and Tesseract   *)
(* are external: their results are nondeterministic choices.               *)
(***************************************************************************)
EXTENDS Integers, Sequences, FiniteSets, TLC

\* ------------------------------------------------------------- bounds
\* longest target and longest recognised text of SpecMatch
MaxTargetLen == 2
MaxTextLen == 3
\* contours find_contours may return
MaxContours == 2
\* largest bounding rectangle of SpecExtract
MaxRectW == 17
MaxRectH == 2

\* characters: upper and lower case letters, the two punctuation marks the
\* code strips, the underscore and the space
Alphabet == {"A", "a", "b", ".", ",", "_", " "}

StringsUpTo(alphabet, n) == UNION {[1..k -> alphabet] : k \in 0..n}

\* ------------------------------------------------------------- strings
\* char::to_lowercase on the alphabet
LowerChar(c) == IF c = "A" THEN "a" ELSE c

\* str::to_lowercase
to_lowercase(s) == [i \in 1..Len(s) |-> LowerChar(s[i])]

\* str::replace(from, to) for a one-character pattern; to is a string
RECURSIVE replace(_, _, _)
replace(s, from, to) ==
    IF s = <<>> THEN <<>>
    ELSE (IF Head(s) = from THEN to ELSE <<Head(s)>>) \o replace(Tail(s), from, to)

\* contains with the last offset left out
contains_off_by_one(haystack, needle) ==
    \E i \in 1..(Len(haystack) - Len(needle)) :
        SubSeq(haystack, i, i + Len(needle) - 1) = needle

\* str::contains(&String): needle occurs at some offset of haystack
contains(haystack, needle) ==
    \E i \in 1..(Len(haystack) - Len(needle) + 1) :
        SubSeq(haystack, i, i + Len(needle) - 1) = needle

\* supplement_target_string with the second candidate not lower-cased
supplement_target_string_no_lower(target) ==
    IF contains(target, <<"_">>)
    THEN <<to_lowercase(target), replace(target, "_", <<" ">>)>>
    ELSE <<to_lowercase(target)>>

\* fn supplement_target_string(target: &String) -> Vec<String>
supplement_target_string(target) ==
    IF contains(target, <<"_">>)
    THEN <<to_lowercase(target), to_lowercase(replace(target, "_", <<" ">>))>>
    ELSE <<to_lowercase(target)>>

\* line 137 without the removal of commas
picked_of_keep_comma(text) == replace(to_lowercase(text), ".", <<>>)

\* line 137: text.to_lowercase().replace(".", "").replace(",", "")
picked_of(text) == replace(replace(to_lowercase(text), ".", <<>>), ",", <<>>)

\* line 138: strings.iter().any(|s| picked.contains(s))
any_contains(strs, picked_text) ==
    \E k \in 1..Len(strs) : contains(picked_text, strs[k])

\* ------------------------------------------------------------- images
\* Scalar::new(255., 255., 255., 255.): the value masking_bar fills with
MaskColour == 255

\* pixel coordinates <<x, y>> of a rows x cols Mat
Coords(rows, cols) == (0..(cols - 1)) \X (0..(rows - 1))

\* Default::default(): the empty Mat. A Mat is its rows, cols, channel count
\* (its type) and the channel bytes of each pixel
NoImage == [rows |-> 0, cols |-> 0, channels |-> 0, data |-> <<>>]

\* what imread(IMREAD_UNCHANGED) may decode: a dark picture of 3 channels and
\* one row, and a picture of 4 channels and two rows that already holds bytes
\* of the masking colour
DarkImage ==
    [rows |-> 1, cols |-> 6, channels |-> 3,
     data |-> [p \in Coords(1, 6) |-> [k \in 1..3 |-> 0]]]
MixedImage ==
    [rows |-> 2, cols |-> 6, channels |-> 4,
     data |-> [p \in Coords(2, 6) |->
                [k \in 1..4 |-> IF (p[1] + p[2] + k) % 2 = 0 THEN MaskColour ELSE 7]]]
Images == {DarkImage, MixedImage}

\* Rect: x, y, width, height
Rects(rows, cols) ==
    {r \in [x : 0..(cols - 1), y : 0..(rows - 1), width : 1..cols, height : 1..rows] :
        r.x + r.width <= cols /\ r.y + r.height <= rows}

Inside(p, r) ==
    /\ r.x <= p[1] /\ p[1] < r.x + r.width
    /\ r.y <= p[2] /\ p[2] < r.y + r.height

\* Mat::roi(&image, area): the sub-matrix of image bounded by area
Mat_roi(img, r) ==
    [rows |-> r.height, cols |-> r.width, channels |-> img.channels,
     data |-> [p \in Coords(r.height, r.width) |-> img.data[<<p[1] + r.x, p[2] + r.y>>]]]

\* masking_bar filling the first channel only
masking_bar_first_channel(roi) ==
    [roi EXCEPT !.data = [p \in DOMAIN roi.data |->
        [k \in 1..roi.channels |-> IF k = 1 THEN MaskColour ELSE roi.data[p][k]]]]

\* fn masking_bar(roi: &Mat): a Mat of roi's rows, cols and type, every channel
\* of every pixel the masking colour
masking_bar(roi) ==
    [roi EXCEPT !.data = [p \in DOMAIN roi.data |-> [k \in 1..roi.channels |-> MaskColour]]]

\* copy_to_roi taking the columns of r in every row of the image
copy_to_roi_all_rows(bar, img, r) ==
    [img EXCEPT !.data = [p \in DOMAIN img.data |->
        IF r.x <= p[1] /\ p[1] < r.x + r.width
        THEN bar.data[<<p[1] - r.x, 0>>]
        ELSE img.data[p]]]

\* bar.copy_to(&mut roi): roi has bar's size and type, so the copy lands in the
\* pixels of image that roi views
copy_to_roi(bar, img, r) ==
    [img EXCEPT !.data = [p \in DOMAIN img.data |->
        IF Inside(p, r) THEN bar.data[<<p[1] - r.x, p[2] - r.y>>] ELSE img.data[p]]]

\* keep_rect without the aspect ratio test
keep_rect_no_aspect(rect, rows, cols) ==
    /\ rect.height < rect.width
    /\ rect.height > rows \div 72
    /\ rect.width < cols \div 2

\* lines 76-77: the test a bounding rectangle must pass (i32 division)
keep_rect(rect, rows, cols) ==
    /\ rect.height < rect.width
    /\ rect.height > rows \div 72
    /\ rect.width \div rect.height < 15
    /\ rect.width < cols \div 2

\* ------------------------------------------------------------- state
VARIABLES
    pc,             \* position of the run
    argv,           \* command line arguments after the program name
    files,          \* files on disk
    target_string,  \* args.target_string
    strings,        \* candidates of supplement_target_string
    image,          \* the Mat mask_my_name owns
    decoded,        \* image as load_image returned it
    mask,           \* rows and cols of the Mat mask_text returned
    pending,        \* contours find_textarea_from_mask has still to visit
    contours,       \* bounding rectangles visited so far (SpecExtract)
    rect_result,    \* rect_result of find_textarea_from_mask
    idx,            \* regions the loop of mask_my_name has finished
    text,           \* recognised text (SpecMatch)
    picked,         \* normalised recognised text (SpecMatch)
    success,        \* success flag of mask_my_name
    scans,          \* outcome of scan_image for each region handed to it
    matched,        \* regions whose text matched
    redacted,       \* regions the bar was copied over
    result,         \* what mask_my_name returned: tag and image carried
    stdout,         \* lines printed
    exit_status     \* process exit status, -1 while running

vars == <<pc, argv, files, target_string, strings, image, decoded, mask, pending,
          contours, rect_result, idx, text, picked, success, scans, matched,
          redacted, result, stdout, exit_status>>

NoResult == [tag |-> "", image |-> NoImage]
Ok(img) == [tag |-> "Ok", image |-> img]
Err(e) == [tag |-> e, image |-> NoImage]

\* #[error("...")] of MaskMyNameError
ErrorMessage(e) ==
    CASE e = "ImageReadError" -> "Read image failed."
      [] e = "MaskTextError" -> "Mask text failed."
      [] e = "TessInitError" -> "Failed to initialize Tesseract."
      [] e = "TessGetTextError" -> "Failed to get text from Tesseract."
      [] e = "MaskingBarCreationError" -> "Failed to create black bar Mat."
      [] e = "NoMatchingString" -> "No matching string found."

InputFile == "image.png"
\* format!("{}_masked.{}", stem, extension)
OutputFile == "image_masked.png"

\* targets given on the command line and texts Tesseract returns in a run
RunTargets == {<<>>, <<"A">>, <<"_">>, <<"A", "_">>}
RunTexts == {<<>>, <<"a">>, <<" ">>, <<"_">>, <<"A", " ">>, <<"a", "_">>}

Paths == {InputFile, "missing.png"}

\* ------------------------------------------------------------- one run
Init ==
    /\ pc = "main"
    /\ argv \in {<<>>} \cup {<<p>> : p \in Paths}
                \cup {<<p, t>> : p \in {InputFile}, t \in RunTargets}
    /\ files = {InputFile}
    /\ target_string = <<>>
    /\ strings = <<>>
    /\ image = NoImage
    /\ decoded = NoImage
    /\ mask = [rows |-> 0, cols |-> 0]
    /\ pending = 0
    /\ contours = <<>>
    /\ rect_result = <<>>
    /\ idx = 0
    /\ text = <<>>
    /\ picked = <<>>
    /\ success = FALSE
    /\ scans = <<>>
    /\ matched = {}
    /\ redacted = {}
    /\ result = NoResult
    /\ stdout = <<>>
    /\ exit_status = -1

\* expect()/panic!(): the process ends with Rust's panic status
Panic ==
    /\ pc' = "exit"
    /\ exit_status' = 101

\* main, lines 161-166: the path is required, the target defaults to ""
MainArgs ==
    /\ pc = "main"
    /\ IF Len(argv) = 0
       THEN Panic /\ UNCHANGED target_string
       ELSE /\ target_string' = (IF Len(argv) >= 2 THEN argv[2] ELSE <<>>)
            /\ pc' = "is_file"
            /\ UNCHANGED exit_status
    /\ UNCHANGED <<argv, files, strings, image, decoded, mask, pending, contours,
                   rect_result, idx, text, picked, success, scans, matched,
                   redacted, result, stdout>>

\* main, lines 167-169
MainIsFile ==
    /\ pc = "is_file"
    /\ IF argv[1] \in files
       THEN pc' = "load_image" /\ UNCHANGED exit_status
       ELSE Panic
    /\ UNCHANGED <<argv, files, target_string, strings, image, decoded, mask,
                   pending, contours, rect_result, idx, text, picked, success,
                   scans, matched, redacted, result, stdout>>

\* mask_my_name, lines 126-128 with load_image returning Ok
LoadImageOk ==
    /\ pc = "load_image"
    /\ \E img \in Images :
        /\ image' = img
        /\ decoded' = img
    /\ success' = FALSE
    /\ pc' = "supplement"
    /\ UNCHANGED <<argv, files, target_string, strings, mask, pending, contours,
                   rect_result, idx, text, picked, scans, matched, redacted,
                   result, stdout, exit_status>>

\* line 127: load_image returned Err, expect() panics
LoadImageErr ==
    /\ pc = "load_image"
    /\ Panic
    /\ UNCHANGED <<argv, files, target_string, strings, image, decoded, mask,
                   pending, contours, rect_result, idx, text, picked, success,
                   scans, matched, redacted, result, stdout>>

\* line 129
Supplement ==
    /\ pc = "supplement"
    /\ strings' = supplement_target_string(target_string)
    /\ pc' = "init_tess"
    /\ UNCHANGED <<argv, files, target_string, image, decoded, mask, pending,
                   contours, rect_result, idx, text, picked, success, scans,
                   matched, redacted, result, stdout, exit_status>>

\* mask_my_name returns: main's match takes over
Return(r) ==
    /\ result' = r
    /\ pc' = "returned"

\* line 130, init_tess returned Ok
InitTessOk ==
    /\ pc = "init_tess"
    /\ pc' = "mask_text"
    /\ UNCHANGED <<argv, files, target_string, strings, image, decoded, mask,
                   pending, contours, rect_result, idx, text, picked, success,
                   scans, matched, redacted, result, stdout, exit_status>>

\* lines 130 and 151, init_tess returned Err
InitTessErr ==
    /\ pc = "init_tess"
    /\ Return(Err("TessInitError"))
    /\ UNCHANGED <<argv, files, target_string, strings, image, decoded, mask,
                   pending, contours, rect_result, idx, text, picked, success,
                   scans, matched, redacted, stdout, exit_status>>

\* line 132, mask_text: the mask has the rows and cols of the image
MaskTextOk ==
    /\ pc = "mask_text"
    /\ mask' = [rows |-> image.rows, cols |-> image.cols]
    /\ pc' = "find_contours"
    /\ UNCHANGED <<argv, files, target_string, strings, image, decoded, pending,
                   contours, rect_result, idx, text, picked, success, scans,
                   matched, redacted, result, stdout, exit_status>>

\* lines 58-66: an OpenCV call of mask_text failed, expect() panics
MaskTextPanic ==
    /\ pc = "mask_text"
    /\ Panic
    /\ UNCHANGED <<argv, files, target_string, strings, image, decoded, mask,
                   pending, contours, rect_result, idx, text, picked, success,
                   scans, matched, redacted, result, stdout>>

\* find_textarea_from_mask, lines 71-73: find_contours returns some contours
FindContours ==
    /\ pc = "find_contours"
    /\ pending' \in 0..MaxContours
    /\ rect_result' = <<>>
    /\ pc' = "contour"
    /\ UNCHANGED <<argv, files, target_string, strings, image, decoded, mask,
                   contours, idx, text, picked, success, scans, matched,
                   redacted, result, stdout, exit_status>>

\* lines 74-81, one contour whose bounding rectangle is rect
VisitContour(rect) ==
    /\ pc = "contour"
    /\ pending > 0
    /\ pending' = pending - 1
    /\ rect_result' = (IF keep_rect(rect, mask.rows, mask.cols)
                         THEN Append(rect_result, rect)
                         ELSE rect_result)
    /\ UNCHANGED <<pc, argv, files, target_string, strings, image, decoded, mask,
                   idx, text, picked, success, scans, matched, redacted,
                   result, stdout, exit_status>>

\* the contour loop inside a run: the rectangle is any within the mask
ContourStep ==
    /\ \E rect \in Rects(mask.rows, mask.cols) : VisitContour(rect)
    /\ UNCHANGED contours

\* line 82 and the head of the loop of line 132
FindTextareaReturn ==
    /\ pc = "contour"
    /\ pending = 0
    /\ idx' = 0
    /\ pc' = "loop"
    /\ UNCHANGED <<argv, files, target_string, strings, image, decoded, mask,
                   pending, contours, rect_result, text, picked, success,
                   scans, matched, redacted, result, stdout, exit_status>>

\* lines 133-139 and 142: scan_image returned the text; the region matches or
\* the loop moves on
ScanOk ==
    /\ pc = "loop"
    /\ idx < Len(rect_result)
    /\ \E t \in RunTexts :
        LET hit == any_contains(strings, picked_of(t)) IN
        /\ scans' = Append(scans, "Ok")
        /\ matched' = (IF hit THEN matched \cup {idx + 1} ELSE matched)
        /\ success' = (IF hit THEN TRUE ELSE success)
        /\ pc' = (IF hit THEN "masking_bar" ELSE "loop")
        /\ idx' = (IF hit THEN idx ELSE idx + 1)
    /\ UNCHANGED <<argv, files, target_string, strings, image, decoded, mask,
                   pending, contours, rect_result, text, picked, redacted,
                   result, stdout, exit_status>>

\* ScanErr skipping the region instead of returning
ScanErr_Skip ==
    /\ pc = "loop"
    /\ idx < Len(rect_result)
    /\ scans' = Append(scans, "Err")
    /\ idx' = idx + 1
    /\ UNCHANGED <<pc, argv, files, target_string, strings, image, decoded, mask,
                   pending, contours, rect_result, text, picked, success,
                   matched, redacted, result, stdout, exit_status>>

\* lines 135 and 143: scan_image returned Err
ScanErr ==
    /\ pc = "loop"
    /\ idx < Len(rect_result)
    /\ scans' = Append(scans, "Err")
    /\ Return(Err("TessGetTextError"))
    /\ UNCHANGED <<argv, files, target_string, strings, image, decoded, mask,
                   pending, contours, rect_result, idx, text, picked, success,
                   matched, redacted, stdout, exit_status>>

\* line 140: the bar is created and copied over the region
MaskingBarOk ==
    /\ pc = "masking_bar"
    /\ LET area == rect_result[idx + 1] IN
        image' = copy_to_roi(masking_bar(Mat_roi(image, area)), image, area)
    /\ redacted' = redacted \cup {idx + 1}
    /\ idx' = idx + 1
    /\ pc' = "loop"
    /\ UNCHANGED <<argv, files, target_string, strings, decoded, mask, pending,
                   contours, rect_result, text, picked, success, scans,
                   matched, result, stdout, exit_status>>

\* line 140: masking_bar returned Err, ? returns it
MaskingBarErr ==
    /\ pc = "masking_bar"
    /\ Return(Err("MaskingBarCreationError"))
    /\ UNCHANGED <<argv, files, target_string, strings, image, decoded, mask,
                   pending, contours, rect_result, idx, text, picked, success,
                   scans, matched, redacted, stdout, exit_status>>

\* LoopEnd returning Ok whatever the success flag
LoopEnd_AlwaysOk ==
    /\ pc = "loop"
    /\ idx = Len(rect_result)
    /\ Return(Ok(image))
    /\ UNCHANGED <<argv, files, target_string, strings, image, decoded, mask,
                   pending, contours, rect_result, idx, text, picked, success,
                   scans, matched, redacted, stdout, exit_status>>

\* lines 146-149
LoopEnd ==
    /\ pc = "loop"
    /\ idx = Len(rect_result)
    /\ Return(IF success THEN Ok(image) ELSE Err("NoMatchingString"))
    /\ UNCHANGED <<argv, files, target_string, strings, image, decoded, mask,
                   pending, contours, rect_result, idx, text, picked, success,
                   scans, matched, redacted, stdout, exit_status>>

\* main, lines 171-177: imwrite wrote the file, wrote nothing (Ok(false)) or
\* returned Err, which expect() turns into a panic; otherwise main returns
MainOk ==
    /\ pc = "returned"
    /\ result.tag = "Ok"
    /\ stdout' = Append(stdout, "Matching found. write masked image to disk.")
    /\ pc' = "exit"
    /\ \E outcome \in {"written", "not written", "error"} :
        /\ files' = (IF outcome = "written" THEN files \cup {OutputFile} ELSE files)
        /\ exit_status' = (IF outcome = "error" THEN 101 ELSE 0)
    /\ UNCHANGED <<argv, target_string, strings, image, decoded, mask, pending,
                   contours, rect_result, idx, text, picked, success, scans,
                   matched, redacted, result>>

\* MainErr writing the output file as well
MainErr_Writes ==
    /\ pc = "returned"
    /\ result.tag # "Ok"
    /\ stdout' = Append(stdout, ErrorMessage(result.tag))
    /\ files' = files \cup {OutputFile}
    /\ pc' = "exit"
    /\ exit_status' = 0
    /\ UNCHANGED <<argv, target_string, strings, image, decoded, mask, pending,
                   contours, rect_result, idx, text, picked, success, scans,
                   matched, redacted, result>>

\* main, lines 178-188: both arms print the error; main returns
MainErr ==
    /\ pc = "returned"
    /\ result.tag # "Ok"
    /\ stdout' = Append(stdout, ErrorMessage(result.tag))
    /\ pc' = "exit"
    /\ exit_status' = 0
    /\ UNCHANGED <<argv, files, target_string, strings, image, decoded, mask,
                   pending, contours, rect_result, idx, text, picked, success,
                   scans, matched, redacted, result>>

Next ==
    \/ MainArgs
    \/ MainIsFile
    \/ LoadImageOk
    \/ LoadImageErr
    \/ Supplement
    \/ InitTessOk
    \/ InitTessErr
    \/ MaskTextOk
    \/ MaskTextPanic
    \/ FindContours
    \/ ContourStep
    \/ FindTextareaReturn
    \/ ScanOk
    \/ ScanErr
    \/ MaskingBarOk
    \/ MaskingBarErr
    \/ LoopEnd
    \/ MainOk
    \/ MainErr

Spec == Init /\ [][Next]_vars

\* ------------------------------------------------------------- match evaluation
Targets == StringsUpTo(Alphabet, MaxTargetLen)
Texts == StringsUpTo(Alphabet, MaxTextLen)

InitMatch ==
    /\ pc = "supplement"
    /\ target_string \in Targets
    /\ argv = <<>>
    /\ files = {}
    /\ strings = <<>>
    /\ image = NoImage
    /\ decoded = NoImage
    /\ mask = [rows |-> 0, cols |-> 0]
    /\ pending = 0
    /\ contours = <<>>
    /\ rect_result = <<>>
    /\ idx = 0
    /\ text = <<>>
    /\ picked = <<>>
    /\ success = FALSE
    /\ scans = <<>>
    /\ matched = {}
    /\ redacted = {}
    /\ result = NoResult
    /\ stdout = <<>>
    /\ exit_status = -1

\* line 129
SupplementTarget ==
    /\ pc = "supplement"
    /\ strings' = supplement_target_string(target_string)
    /\ pc' = "scan"
    /\ UNCHANGED <<argv, files, target_string, image, decoded, mask, pending,
                   contours, rect_result, idx, text, picked, success, scans,
                   matched, redacted, result, stdout, exit_status>>

\* lines 135-139 for one region whose recognised text is t
EvaluateRegion ==
    /\ pc = "scan"
    /\ \E t \in Texts :
        LET hit == any_contains(strings, picked_of(t)) IN
        /\ text' = t
        /\ picked' = picked_of(t)
        /\ scans' = Append(scans, "Ok")
        /\ matched' = (IF hit THEN matched \cup {idx + 1} ELSE matched)
        /\ success' = (IF hit THEN TRUE ELSE success)
    /\ pc' = "evaluated"
    /\ UNCHANGED <<argv, files, target_string, strings, image, decoded, mask,
                   pending, contours, rect_result, idx, redacted, result,
                   stdout, exit_status>>

NextMatch ==
    \/ SupplementTarget
    \/ EvaluateRegion

SpecMatch == InitMatch /\ [][NextMatch]_vars

\* ------------------------------------------------------------- region extraction
\* rows and cols of the masks of SpecExtract
ExtractDims == {<<2, 7>>, <<71, 35>>, <<72, 8>>}

Min(a, b) == IF a < b THEN a ELSE b

\* bounding rectangles of SpecExtract: the filter does not read x and y
ExtractRects(m) ==
    [x : {0}, y : {0}, width : 1..Min(m.cols, MaxRectW), height : 1..Min(m.rows, MaxRectH)]

InitExtract ==
    /\ pc = "find_contours"
    /\ \E d \in ExtractDims : mask = [rows |-> d[1], cols |-> d[2]]
    /\ argv = <<>>
    /\ files = {}
    /\ target_string = <<>>
    /\ strings = <<>>
    /\ image = NoImage
    /\ decoded = NoImage
    /\ pending = 0
    /\ contours = <<>>
    /\ rect_result = <<>>
    /\ idx = 0
    /\ text = <<>>
    /\ picked = <<>>
    /\ success = FALSE
    /\ scans = <<>>
    /\ matched = {}
    /\ redacted = {}
    /\ result = NoResult
    /\ stdout = <<>>
    /\ exit_status = -1

\* lines 74-81, the rectangle visited is recorded
ExtractStep ==
    \E rect \in ExtractRects(mask) :
        /\ VisitContour(rect)
        /\ contours' = Append(contours, rect)

NextExtract ==
    \/ FindContours
    \/ ExtractStep
    \/ FindTextareaReturn

SpecExtract == InitExtract /\ [][NextExtract]_vars

\* ------------------------------------------------------------- properties
Range(f) == {f[i] : i \in DOMAIN f}

Returned == pc \in {"returned", "exit"} /\ result # NoResult

\* c occurs in n as a contiguous run of characters
OccursIn(c, n) ==
    \E before \in 0..(Len(n) - Len(c)) : \A j \in 1..Len(c) : n[before + j] = c[j]

NotPunctuation(c) == c \notin {".", ","}

\* r lower-cased, every '.' and ',' deleted
Normalised(r) == SelectSeq([i \in 1..Len(r) |-> LowerChar(r[i])], NotPunctuation)

\* the candidates the specification derives from target t
CandidateSet(t) ==
    {[i \in 1..Len(t) |-> LowerChar(t[i])]}
        \cup (IF "_" \in Range(t)
              THEN {[i \in 1..Len(t) |-> IF t[i] = "_" THEN " " ELSE LowerChar(t[i])]}
              ELSE {})

\* the pixels of rectangle r
PixelsOf(r) == (r.x..(r.x + r.width - 1)) \X (r.y..(r.y + r.height - 1))

Overlap(r1, r2) == PixelsOf(r1) \cap PixelsOf(r2) # {}

\* every channel of every pixel of r holds the masking colour in img
AllMask(img, r) ==
    \A p \in PixelsOf(r) : \A k \in 1..img.channels : img.data[p][k] = MaskColour

\* C1: a run of mask_my_name without a hard failure returns Ok carrying the
\* image exactly when at least one region matched, and otherwise (also with
\* no candidate region at all) NoMatchingString carrying no image.
C1_SuccessIffSomeMatch ==
    (Returned /\ result.tag \in {"Ok", "NoMatchingString"}) =>
        /\ (result.tag = "Ok") <=> (matched # {})
        /\ (result.tag = "Ok") => (result.image = image /\ image # NoImage)
        /\ (result.tag = "NoMatchingString") => (result.image = NoImage)

C1_Witness ==
    /\ Returned
    /\ result.tag = "Ok"
    /\ Len(scans) = 2
    /\ Cardinality(matched) = 1

\* C2: once recognition fails on region k nothing more happens in the loop:
\* region k is the last one scanned, only regions before k are matched or
\* redacted, and the run has returned TessGetTextError, whatever was matched
\* and redacted before.
C2_RecognitionFailureAborts ==
    \A k \in 1..Len(scans) :
        scans[k] = "Err" =>
            /\ Len(scans) = k
            /\ matched \subseteq 1..(k - 1)
            /\ redacted \subseteq 1..(k - 1)
            /\ pc \in {"returned", "exit"}
            /\ result = Err("TessGetTextError")

C2_Witness ==
    /\ pc = "exit"
    /\ scans = <<"Ok", "Err">>
    /\ redacted = {1}
    /\ image # decoded

\* C3: the output file exists only after mask_my_name returned Ok; no error
\* and no NoMatchingString run writes it.
C3_WriteOnlyOnSuccess ==
    (OutputFile \in files) => (result.tag = "Ok")

C3_Witness ==
    /\ pc = "exit"
    /\ OutputFile \in files
    /\ result.tag = "Ok"

\* C4: a run that ends with an error other than NoMatchingString prints the
\* error and exits with a non-zero status.
C4_ErrorExitsNonZero ==
    (pc = "exit" /\ result.tag \in {"TessInitError", "TessGetTextError",
                                   "MaskingBarCreationError"}) =>
        /\ stdout = <<ErrorMessage(result.tag)>>
        /\ exit_status # 0

\* C5: a region is matched exactly when its text, lower-cased and with every
\* '.' and ',' deleted, contains a candidate derived from the target as a
\* contiguous substring.
C5_MatchIffNormalisedContains ==
    (pc = "evaluated") =>
        ((idx + 1 \in matched) <=>
            (\E c \in CandidateSet(target_string) : OccursIn(c, Normalised(text))))

C5_Witness ==
    /\ pc = "evaluated"
    /\ target_string = <<"a", "b">>
    /\ text = <<"A", ".", "b">>
    /\ matched = {1}

\* the four bounds of the Region Extractor read as exact ratios
ExactBounds(r, rows, cols) ==
    /\ r.height < r.width
    /\ 72 * r.height > rows
    /\ r.width < 15 * r.height
    /\ 2 * r.width < cols

\* the same with the width bound as the code computes it: width < floor(cols / 2)
TruncatedBounds(r, rows, cols) ==
    /\ r.height < r.width
    /\ 72 * r.height > rows
    /\ r.width < 15 * r.height
    /\ 2 * (r.width + 1) <= cols

\* C6 as claimed: a visited bounding rectangle is in the output exactly when
\* it meets the four bounds read as exact ratios.
C6_ExactRatios ==
    \A i \in 1..Len(contours) :
        (contours[i] \in Range(rect_result)) <=> ExactBounds(contours[i], mask.rows, mask.cols)

\* C6 amended: a visited bounding rectangle is in the output exactly when
\* h < w, h > H/72, w/h < 15 and w < floor(W/2), that is w + 1 <= W/2.
C6_TruncatedWidthBound ==
    \A i \in 1..Len(contours) :
        (contours[i] \in Range(rect_result)) <=> TruncatedBounds(contours[i], mask.rows, mask.cols)

C6_Witness ==
    /\ pc = "loop"
    /\ Len(contours) = 2
    /\ Len(rect_result) = 1
    /\ \E i \in 1..2 :
        /\ ExactBounds(contours[i], mask.rows, mask.cols)
        /\ contours[i] \notin Range(rect_result)

\* C7: the image keeps its rows, cols and channels, and every pixel outside
\* all matched regions keeps the value load_image decoded.
C7_RedactionLocalized ==
    (decoded # NoImage) =>
        /\ image.rows = decoded.rows
        /\ image.cols = decoded.cols
        /\ image.channels = decoded.channels
        /\ DOMAIN image.data = DOMAIN decoded.data
        /\ \A p \in DOMAIN decoded.data :
            (\A i \in matched : p \notin PixelsOf(rect_result[i])) =>
                /\ image.data[p] = decoded.data[p]
                /\ (result.tag = "Ok" => result.image.data[p] = decoded.data[p])

C7_Witness ==
    /\ pc = "loop"
    /\ idx = 2
    /\ image.rows = 2
    /\ redacted = {1}
    /\ scans = <<"Ok", "Ok">>
    /\ Overlap(rect_result[1], rect_result[2])
    /\ rect_result[1] # rect_result[2]

\* C8: every region the bar was copied over holds the masking colour in every
\* channel of every pixel from then on, and when the run returns Ok every
\* matched region does so in the returned image.
C8_MatchedRegionsMasked ==
    /\ \A i \in redacted : AllMask(image, rect_result[i])
    /\ (result.tag = "Ok") => \A i \in matched : AllMask(result.image, rect_result[i])

C8_Witness ==
    /\ Returned
    /\ result.tag = "Ok"
    /\ matched = {1}
    /\ Len(scans) = 2
    /\ Overlap(rect_result[1], rect_result[2])
    /\ ~AllMask(decoded, rect_result[1])

\* C9: the candidates are lowercase(t) and, when t holds an underscore, also
\* lowercase(t with every underscore replaced by a space), and nothing else,
\* from the moment they are computed to the end of the evaluation.
C9_UnderscoreSupplementation ==
    (pc # "supplement") =>
        /\ Range(strings) = CandidateSet(target_string)
        /\ Len(strings) = (IF "_" \in Range(target_string) THEN 2 ELSE 1)
        /\ \A i \in 1..Len(target_string) : target_string[i] = "_" =>
                /\ strings[1][i] = "_"
                /\ strings[2][i] = " "

C9_Witness ==
    /\ pc = "evaluated"
    /\ target_string = <<"A", "_">>
    /\ strings = << <<"a", "_">>, <<"a", " ">> >>

\* a run whose target is the empty string has computed its candidates
EmptyTargetRun == target_string = <<>> /\ strings # <<>>

====
